---- MODULE Spec2Model ----
(***************************************************************************)
(* Model of the MiniMax provider strategy                                  *)
(* (src/src/main/models/providers/minimax.ts): model discovery with        *)
(* fallback to the static list, the aider mapping, the construction of the *)
(* model client, the cost formula and the usage report.                    *)
(*                                                                         *)
(* Conventions                                                             *)
(*  - an optional JavaScript value (T | undefined) is a set: {} when it is *)
(*    absent, {v} when it is present;                                      *)
(*  - text that the code edits character by character (the fallback        *)
(*    reason) is a sequence of one-character strings;                      *)
(*  - rates are integers (a rate in some smallest unit of currency per     *)
(*    token), so that the arithmetic of the cost formula is exact.         *)
(***************************************************************************)
EXTENDS Integers, Sequences, FiniteSets

VARIABLES
  op,             \* the operation that ran last ("init" before any ran)
  args,           \* its arguments
  ret,            \* what it returned or threw
  warnings,       \* the reasons of the logger.warn calls it made, in order
  debugs,         \* the sources named by the logger.debug calls it made
  requests,       \* the number of HTTP requests it issued
  envCalls,       \* the scopes it passed to getEffectiveEnvironmentVariable
  agentTotalCost, \* task.task.agentTotalCost, carried from report to report
  reports         \* the number of usage reports built for the task

vars == <<op, args, ret, warnings, debugs, requests, envCalls, agentTotalCost, reports>>

(***************************************************************************)
(* Bounds of the model.                                                    *)
(***************************************************************************)
MaxText == 3      \* longest raw text (response body, exception message)
MaxEntries == 2   \* longest generated list under "data"
MaxRate == 1      \* largest rate of a generated model
MaxTokens == 2    \* largest token counter
MaxReports == 2   \* usage reports built for one task

(***************************************************************************)
(* JavaScript operators on optional values.                                *)
(***************************************************************************)
None == {}

Some(v) == {v}

The(x) == CHOOSE v \in x : TRUE

\* a ?? b on an optional number and a number
Coalesce(a, b) == IF a = None THEN b ELSE The(a)

\* a || b on an optional number and a number: 0 is falsy too
OrNumber(a, b) == IF a = None \/ a = Some(0) THEN b ELSE The(a)

\* a || b on an optional string and a string: "" is falsy too
OrString(a, b) == IF a = None \/ a = Some("") THEN b ELSE The(a)

\* !x on an optional string
Falsy(a) == a = None \/ a = Some("")

(***************************************************************************)
(* Text as sequences of characters.                                        *)
(***************************************************************************)
Whitespace == {" ", "\n"}

Alphabet == {"<", ">", "a"} \cup Whitespace

RECURSIVE Texts(_)
Texts(n) ==
  IF n = 0 THEN {<<>>}
  ELSE LET shorter == Texts(n - 1)
       IN shorter \cup {Append(t, c) : t \in {s \in shorter : Len(s) = n - 1}, c \in Alphabet}

RawTexts == Texts(MaxText)

RECURSIVE Join(_, _)
\* parts.join(sep)
Join(parts, sep) ==
  IF parts = <<>> THEN <<>>
  ELSE IF Len(parts) = 1 THEN parts[1]
  ELSE parts[1] \o sep \o Join(Tail(parts), sep)

(***************************************************************************)
(* Program constants.                                                      *)
(***************************************************************************)
MINIMAX_BASE_URL == "https://api.minimax.io/anthropic"

KNOWN_MINIMAX_MODELS == <<"MiniMax-M2", "MiniMax-M2-Stable">>

\* 'Empty or unsupported MiniMax models response payload': each word is one
\* element, as no word holds a character the sanitizer looks at
EmptyPayloadReason ==
  <<"Empty", " ", "or", " ", "unsupported", " ", "MiniMax", " ", "models", " ",
    "response", " ", "payload">>

\* `${response.status}` and `${response.statusText}` of the responses drawn
StatusCode == <<"500">>

StatusTexts == {<<>>, <<"Internal", " ", "Server", " ", "Error">>, <<"<", "a", ">", " ">>}

(***************************************************************************)
(* The collaborators: the provider type guard of @common/agent and the     *)
(* environment resolution of @/utils.  Settings are reduced to what the    *)
(* resolution returns for MINIMAX_API_KEY in each scope.                   *)
(***************************************************************************)
isMiniMaxProvider(provider) == provider.name = "minimax"

\* scope "global": no project directory given; "project": the project's
getEffectiveEnvironmentVariable(settings, scope) ==
  IF scope = "project" THEN settings.project ELSE settings.global

\* effectiveVar?.value
ValueOf(effectiveVar) == IF effectiveVar = None THEN None ELSE Some(The(effectiveVar).value)

(***************************************************************************)
(* sanitizeReason: reason.replace(/<[^>]*>/g, ' ').replace(/\s+/g, ' ')    *)
(* .trim()                                                                 *)
(***************************************************************************)
\* the index of the first ">" of s at or after i, 0 when there is none
RECURSIVE NextClose(_, _)
NextClose(s, i) ==
  IF i > Len(s) THEN 0
  ELSE IF s[i] = ">" THEN i
  ELSE NextClose(s, i + 1)

RECURSIVE ReplaceTags(_)
\* replace(/<[^>]*>/g, ' '): leftmost match first, then on from its end
ReplaceTags(s) ==
  IF s = <<>> THEN <<>>
  ELSE IF Head(s) = "<" /\ NextClose(s, 2) # 0
       THEN <<" ">> \o ReplaceTags(SubSeq(s, NextClose(s, 2) + 1, Len(s)))
       ELSE <<Head(s)>> \o ReplaceTags(Tail(s))

RECURSIVE DropLeadingWs(_)
DropLeadingWs(s) ==
  IF s # <<>> /\ Head(s) \in Whitespace THEN DropLeadingWs(Tail(s)) ELSE s

RECURSIVE DropTrailingWs(_)
DropTrailingWs(s) ==
  IF s # <<>> /\ s[Len(s)] \in Whitespace
  THEN DropTrailingWs(SubSeq(s, 1, Len(s) - 1))
  ELSE s

RECURSIVE CollapseWs(_)
\* replace(/\s+/g, ' ')
CollapseWs(s) ==
  IF s = <<>> THEN <<>>
  ELSE IF Head(s) \in Whitespace
       THEN <<" ">> \o CollapseWs(DropLeadingWs(s))
       ELSE <<Head(s)>> \o CollapseWs(Tail(s))

Trim(s) == DropTrailingWs(DropLeadingWs(s))

\* the sanitizer without its trim()
sanitizeReason_NoTrim(reason) == CollapseWs(ReplaceTags(reason))

sanitizeReason(reason) == Trim(CollapseWs(ReplaceTags(reason)))

(***************************************************************************)
(* JavaScript values met in the response payload.  Every value is a record *)
(* of the same shape: t is its type, s its text when it is a string.       *)
(***************************************************************************)
Undefined == [t |-> "undefined", s |-> ""]

Null == [t |-> "null", s |-> ""]

Number == [t |-> "number", s |-> ""]

String(s) == [t |-> "string", s |-> s]

\* a ?? b
Nullish(a, b) == IF a.t \in {"undefined", "null"} THEN b ELSE a

\* an entry of the list: a string, null, a number, or an object with the
\* fields id, model and name (Undefined when the object lacks the field)
StringEntry(s) == [t |-> "string", s |-> s, id |-> Undefined, model |-> Undefined, name |-> Undefined]

NullEntry == [t |-> "null", s |-> "", id |-> Undefined, model |-> Undefined, name |-> Undefined]

NumberEntry == [t |-> "number", s |-> "", id |-> Undefined, model |-> Undefined, name |-> Undefined]

ObjectEntry(id, model, name) == [t |-> "object", s |-> "", id |-> id, model |-> model, name |-> name]

(***************************************************************************)
(* loadMiniMaxModels                                                       *)
(***************************************************************************)
\* the fields of ModelInfo the cost formula reads, each optional
NoInfo ==
  [inputCostPerToken |-> None, outputCostPerToken |-> None,
   cacheWriteInputTokenCost |-> None, cacheReadInputTokenCost |-> None]

\* modelsInfo[modelId] ?? {}
InfoOf(modelsInfo, modelId) ==
  IF modelId \in DOMAIN modelsInfo THEN modelsInfo[modelId] ELSE NoInfo

\* { id: modelId, providerId: profile.id, ...(info ?? {}) }
toModel(profile, modelsInfo, modelId) ==
  LET info == InfoOf(modelsInfo, modelId)
  IN [id |-> modelId,
      providerId |-> profile.id,
      inputCostPerToken |-> info.inputCostPerToken,
      outputCostPerToken |-> info.outputCostPerToken,
      cacheWriteInputTokenCost |-> info.cacheWriteInputTokenCost,
      cacheReadInputTokenCost |-> info.cacheReadInputTokenCost]

\* what one call did: its result, the warnings it logged, the HTTP requests
\* it issued, the scopes it asked the environment collaborator for
Outcome(models, success, warned, issued, asked) ==
  [threw |-> FALSE, models |-> models, success |-> success,
   warnings |-> warned, requests |-> issued, envCalls |-> asked]

RECURSIVE MapToModel_KnownOnly(_, _, _)
\* only the identifiers the catalog has an entry for
MapToModel_KnownOnly(profile, modelsInfo, ids) ==
  IF ids = <<>> THEN <<>>
  ELSE (IF Head(ids) \in DOMAIN modelsInfo
        THEN <<toModel(profile, modelsInfo, Head(ids))>> ELSE <<>>)
       \o MapToModel_KnownOnly(profile, modelsInfo, Tail(ids))

MapToModel(profile, modelsInfo, ids) ==
  [i \in 1..Len(ids) |-> toModel(profile, modelsInfo, ids[i])]

\* the failure reported as a failure, without the static list
fallbackToKnownModels_Strict(profile, modelsInfo, reason) ==
  Outcome(<<>>, FALSE, <<>>, 1, <<"global">>)

fallbackToKnownModels(profile, modelsInfo, reason) ==
  LET sanitized == sanitizeReason(reason)
      sanitizedReason == IF sanitized = <<>> THEN <<"Unknown", " ", "error">> ELSE sanitized
  IN Outcome(MapToModel(profile, modelsInfo, KNOWN_MINIMAX_MODELS), TRUE,
             <<sanitizedReason>>, 1, <<"global">>)

\* the callback of remoteModels.map: the identifier of an entry, or undefined
EntryModelId(model) ==
  IF model.t = "string" THEN String(model.s)
  ELSE IF model.t = "object"
       THEN LET candidate == Nullish(model.id, Nullish(model.model, model.name))
            IN IF candidate.t = "string" THEN candidate ELSE Undefined
       ELSE Undefined

RECURSIVE ModelIds(_)
\* remoteModels.map(...).filter(typeof modelId === 'string' && modelId.length > 0)
ModelIds(remoteModels) ==
  IF remoteModels = <<>> THEN <<>>
  ELSE LET modelId == EntryModelId(Head(remoteModels))
       IN (IF modelId.t = "string" /\ modelId.s # "" THEN <<modelId.s>> ELSE <<>>)
          \o ModelIds(Tail(remoteModels))

\* the reason of the catch block, from the value thrown
CaughtReason(error) ==
  IF error.kind = "string" THEN error.text
  ELSE IF error.kind = "Error" THEN error.text
  ELSE IF error.kind = "object" THEN <<"{", "}">>
  ELSE <<"[object", " ", "Object]">>

\* the reason of a response that is not ok
NotOkReason(response) ==
  LET errorText == IF response.text = None THEN <<>> ELSE The(response.text)
      first == response.status \o <<" ">> \o response.statusText
      reasonParts == IF errorText # <<>> THEN <<first, errorText>> ELSE <<first>>
  IN Join(reasonParts, <<" ", "-", " ">>)

\* the variable counted as a key as soon as it resolves, empty or not
NoApiKey_Presence(apiKey, apiKeyEnv) == apiKey = "" /\ apiKeyEnv = None

\* !apiKey && !apiKeyEnv?.value
NoApiKey(apiKey, apiKeyEnv) == apiKey = "" /\ Falsy(ValueOf(apiKeyEnv))

loadMiniMaxModels(profile, modelsInfo, settings, http) ==
  IF ~isMiniMaxProvider(profile.provider)
  THEN Outcome(<<>>, FALSE, <<>>, 0, <<>>)
  ELSE
    LET apiKey == OrString(profile.provider.apiKey, "")
        apiKeyEnv == getEffectiveEnvironmentVariable(settings, "global")
    IN IF NoApiKey(apiKey, apiKeyEnv)
       THEN Outcome(<<>>, FALSE, <<>>, 0, <<"global">>)
       ELSE IF http.kind = "reject"
       THEN fallbackToKnownModels(profile, modelsInfo, CaughtReason(http.error))
       ELSE IF ~http.ok
       THEN fallbackToKnownModels(profile, modelsInfo, NotOkReason(http))
       ELSE IF http.json = "invalid"
       THEN fallbackToKnownModels(profile, modelsInfo, CaughtReason(http.error))
       ELSE
         LET remoteModels == IF http.json = "array" THEN http.data ELSE <<>>
             modelIds == ModelIds(remoteModels)
         IN IF Len(modelIds) = 0
            THEN fallbackToKnownModels(profile, modelsInfo, EmptyPayloadReason)
            ELSE Outcome(MapToModel(profile, modelsInfo, modelIds), TRUE,
                         <<>>, 1, <<"global">>)

(***************************************************************************)
(* loadMiniMaxModels as the earlier revision has it (src/unnamed/part_000): *)
(* the same two early returns, then no fallback: a failure is reported as  *)
(* success = false with an error text, and the entries are read as objects *)
(* with an id.                                                             *)
(***************************************************************************)
EarlierOutcome(threw, models, success, error, issued, asked) ==
  [threw |-> threw, models |-> models, success |-> success, error |-> error,
   requests |-> issued, envCalls |-> asked]

\* m.id of an entry: reading a property of null throws
EarlierThrows(remoteModels) == \E i \in 1..Len(remoteModels) : remoteModels[i].t = "null"

\* { id: m.id, providerId: profile.id, ...modelsInfo[m.id] }
EarlierModel(profile, modelsInfo, m) ==
  LET id == IF m.t = "object" THEN m.id ELSE Undefined
      info == IF id.t = "string" THEN InfoOf(modelsInfo, id.s) ELSE NoInfo
  IN [id |-> id,
      providerId |-> profile.id,
      inputCostPerToken |-> info.inputCostPerToken,
      outputCostPerToken |-> info.outputCostPerToken,
      cacheWriteInputTokenCost |-> info.cacheWriteInputTokenCost,
      cacheReadInputTokenCost |-> info.cacheReadInputTokenCost]

\* the catch block: the error text, or a throw of its own when
\* JSON.stringify cannot serialize the value
EarlierCaught(error) ==
  IF error.kind = "cyclic"
  THEN EarlierOutcome(TRUE, <<>>, FALSE, None, 1, <<"global">>)
  ELSE EarlierOutcome(FALSE, <<>>, FALSE, Some(CaughtReason(error)), 1, <<"global">>)

TypeError == [kind |-> "Error", text |-> <<"TypeError">>]

loadMiniMaxModelsEarlier(profile, modelsInfo, settings, http) ==
  IF ~isMiniMaxProvider(profile.provider)
  THEN EarlierOutcome(FALSE, <<>>, FALSE, None, 0, <<>>)
  ELSE
    LET apiKey == OrString(profile.provider.apiKey, "")
        apiKeyEnv == getEffectiveEnvironmentVariable(settings, "global")
    IN IF NoApiKey(apiKey, apiKeyEnv)
       THEN EarlierOutcome(FALSE, <<>>, FALSE, None, 0, <<"global">>)
       ELSE IF http.kind = "reject"
       THEN EarlierCaught(http.error)
       ELSE IF ~http.ok
       THEN IF http.text = None
            \* await response.text() rejects inside the try block
            THEN EarlierCaught(TypeError)
            ELSE EarlierOutcome(FALSE, <<>>, FALSE,
                                Some(<<"MiniMax models API response failed:", " ">>
                                       \o http.status \o <<" ">> \o http.statusText
                                       \o <<" ">> \o The(http.text)),
                                1, <<"global">>)
       ELSE IF http.json = "invalid"
       THEN EarlierCaught(http.error)
       ELSE IF http.json \in {"null", "notarray"}
       \* data.data of null, and a data.data without map, throw a TypeError
       THEN EarlierCaught(TypeError)
       ELSE IF http.json = "nodata"
       \* data.data?.map(...) || []
       THEN EarlierOutcome(FALSE, <<>>, TRUE, None, 1, <<"global">>)
       ELSE IF EarlierThrows(http.data)
       THEN EarlierCaught(TypeError)
       ELSE EarlierOutcome(FALSE,
                           [i \in 1..Len(http.data) |->
                              EarlierModel(profile, modelsInfo, http.data[i])],
                           TRUE, None, 1, <<"global">>)

(***************************************************************************)
(* getMiniMaxAiderMapping                                                  *)
(***************************************************************************)
\* the key set as soon as the profile has one, empty or not
getMiniMaxAiderMapping_Defined(provider, modelId) ==
  LET apiKey == provider.provider.apiKey
  IN [modelName |-> "anthropic/" \o modelId,
      environmentVariables |->
        IF apiKey # None
        THEN [v \in {"ANTHROPIC_API_URL", "ANTHROPIC_API_KEY"} |->
                IF v = "ANTHROPIC_API_KEY" THEN The(apiKey) ELSE MINIMAX_BASE_URL]
        ELSE [v \in {"ANTHROPIC_API_URL"} |-> MINIMAX_BASE_URL],
      envCalls |-> <<>>]

getMiniMaxAiderMapping(provider, modelId) ==
  LET miniMaxProvider == provider.provider
      envVars == [v \in {"ANTHROPIC_API_URL"} |-> MINIMAX_BASE_URL]
      withKey == [v \in {"ANTHROPIC_API_URL", "ANTHROPIC_API_KEY"} |->
                    IF v = "ANTHROPIC_API_KEY" THEN The(miniMaxProvider.apiKey)
                    ELSE envVars[v]]
  IN [modelName |-> "anthropic/" \o modelId,
      environmentVariables |-> IF ~Falsy(miniMaxProvider.apiKey) THEN withKey ELSE envVars,
      envCalls |-> <<>>]

(***************************************************************************)
(* createMiniMaxLlm                                                        *)
(***************************************************************************)
RequiredKeyMessage ==
  "MiniMax API key is required in Providers settings or Aider environment variables (MINIMAX_API_KEY)"

\* the variable resolved without the project directory
createMiniMaxLlm_Global(profile, model, settings) ==
  LET provider == profile.provider
      consults == Falsy(provider.apiKey)
      effectiveVar == getEffectiveEnvironmentVariable(settings, "global")
      loaded == consults /\ effectiveVar # None
      apiKey == IF loaded THEN Some(The(effectiveVar).value) ELSE provider.apiKey
  IN [threw |-> Falsy(apiKey),
      message |-> IF Falsy(apiKey) THEN RequiredKeyMessage ELSE "",
      client |-> IF Falsy(apiKey) THEN None
                 ELSE Some([apiKey |-> The(apiKey), baseURL |-> MINIMAX_BASE_URL,
                            headers |-> profile.headers, modelId |-> model.id]),
      debugs |-> IF loaded THEN <<The(effectiveVar).source>> ELSE <<>>,
      envCalls |-> IF consults THEN <<"project">> ELSE <<>>]

createMiniMaxLlm(profile, model, settings) ==
  LET provider == profile.provider
      consults == Falsy(provider.apiKey)
      effectiveVar == getEffectiveEnvironmentVariable(settings, "project")
      loaded == consults /\ effectiveVar # None
      apiKey == IF loaded THEN Some(The(effectiveVar).value) ELSE provider.apiKey
  IN [threw |-> Falsy(apiKey),
      message |-> IF Falsy(apiKey) THEN RequiredKeyMessage ELSE "",
      \* createAnthropic({apiKey, baseURL, headers})(model.id)
      client |-> IF Falsy(apiKey) THEN None
                 ELSE Some([apiKey |-> The(apiKey), baseURL |-> MINIMAX_BASE_URL,
                            headers |-> profile.headers, modelId |-> model.id]),
      debugs |-> IF loaded THEN <<The(effectiveVar).source>> ELSE <<>>,
      envCalls |-> IF consults THEN <<"project">> ELSE <<>>]

(***************************************************************************)
(* calculateMiniMaxCost                                                    *)
(***************************************************************************)
\* the cache-write rate defaulted with || : a rate of 0 becomes the input rate
calculateMiniMaxCost_Or(model, sentTokens, receivedTokens, cacheWriteTokens, cacheReadTokens) ==
  LET inputCostPerToken == Coalesce(model.inputCostPerToken, 0)
      outputCostPerToken == Coalesce(model.outputCostPerToken, 0)
      cacheWriteInputTokenCost == OrNumber(model.cacheWriteInputTokenCost, inputCostPerToken)
      cacheReadInputTokenCost == Coalesce(model.cacheReadInputTokenCost, 0)
  IN sentTokens * inputCostPerToken
     + receivedTokens * outputCostPerToken
     + Coalesce(cacheWriteTokens, 0) * cacheWriteInputTokenCost
     + Coalesce(cacheReadTokens, 0) * cacheReadInputTokenCost

\* cacheWriteTokens and cacheReadTokens are optional: a parameter left out
\* takes its default, 0
calculateMiniMaxCost(model, sentTokens, receivedTokens, cacheWriteTokens, cacheReadTokens) ==
  LET inputCostPerToken == Coalesce(model.inputCostPerToken, 0)
      outputCostPerToken == Coalesce(model.outputCostPerToken, 0)
      cacheWriteInputTokenCost == Coalesce(model.cacheWriteInputTokenCost, inputCostPerToken)
      cacheReadInputTokenCost == Coalesce(model.cacheReadInputTokenCost, 0)
      inputCost == sentTokens * inputCostPerToken
      outputCost == receivedTokens * outputCostPerToken
      cacheCreationCost == Coalesce(cacheWriteTokens, 0) * cacheWriteInputTokenCost
      cacheReadCost == Coalesce(cacheReadTokens, 0) * cacheReadInputTokenCost
      cacheCost == cacheCreationCost + cacheReadCost
  IN inputCost + outputCost + cacheCost

(***************************************************************************)
(* getMiniMaxUsageReport                                                   *)
(***************************************************************************)
\* const { anthropic } = (providerMetadata as MiniMaxMetadata) || {}
AnthropicOf(providerMetadata) ==
  IF providerMetadata = None THEN None ELSE The(providerMetadata).anthropic

\* anthropic?.cacheCreationInputTokens
CacheCreationOf(anthropic) ==
  IF anthropic = None THEN None ELSE The(anthropic).cacheCreationInputTokens

\* anthropic?.cacheReadInputTokens
CacheReadOf(anthropic) ==
  IF anthropic = None THEN None ELSE The(anthropic).cacheReadInputTokens

\* the chain written with || : a counter of 0 in the metadata falls through
CacheReadTokens_Or(anthropic, usage) ==
  OrNumber(CacheReadOf(anthropic), OrNumber(usage.cachedInputTokens, 0))

\* anthropic?.cacheReadInputTokens ?? usage?.cachedInputTokens ?? 0
CacheReadTokens(anthropic, usage) ==
  Coalesce(CacheReadOf(anthropic), Coalesce(usage.cachedInputTokens, 0))

getMiniMaxUsageReport(priorTotal, provider, model, usage, providerMetadata) ==
  LET totalSentTokens == OrNumber(usage.inputTokens, 0)
      receivedTokens == OrNumber(usage.outputTokens, 0)
      anthropic == AnthropicOf(providerMetadata)
      cacheWriteTokens == Coalesce(CacheCreationOf(anthropic), 0)
      cacheReadTokens == CacheReadTokens(anthropic, usage)
      sentTokens == totalSentTokens - cacheReadTokens
      messageCost ==
        calculateMiniMaxCost(model, sentTokens, receivedTokens,
                             Some(cacheWriteTokens), Some(cacheReadTokens))
  IN [model |-> provider.id \o "/" \o model.id,
      sentTokens |-> sentTokens,
      receivedTokens |-> receivedTokens,
      cacheWriteTokens |-> cacheWriteTokens,
      cacheReadTokens |-> cacheReadTokens,
      messageCost |-> messageCost,
      agentTotalCost |-> priorTotal + messageCost]

(***************************************************************************)
(* The inputs the operations are called with.                              *)
(***************************************************************************)
ApiKeys == {None, Some(""), Some("profile-key")}

Providers == [name : {"minimax", "openai"}, apiKey : ApiKeys]

Profiles == [id : {"minimax", "minimax-2"}, provider : Providers, headers : {None}]

ProfilesWithHeaders ==
  [id : {"minimax"}, provider : Providers, headers : {None, Some("x-team")}]

\* what the environment resolution answers in one scope
EnvAnswers(key, source) ==
  {None, Some([value |-> "", source |-> source]), Some([value |-> key, source |-> source])}

GlobalSettings == [global : EnvAnswers("global-key", ".env"), project : {None}]

Settings ==
  [global : EnvAnswers("global-key", ".env"),
   project : EnvAnswers("project-key", "project/.env")]

\* the catalog of known model metadata: two of the identifiers met below
\* have an entry, the others have none
ModelsInfo ==
  [m \in {"MiniMax-M2", "foo"} |->
     IF m = "foo"
     THEN [inputCostPerToken |-> Some(2), outputCostPerToken |-> Some(3),
           cacheWriteInputTokenCost |-> Some(0), cacheReadInputTokenCost |-> Some(1)]
     ELSE [inputCostPerToken |-> Some(1), outputCostPerToken |-> Some(2),
           cacheWriteInputTokenCost |-> None, cacheReadInputTokenCost |-> None]]

ModelIdsMet == {"MiniMax-M2", "MiniMax-M2-Stable", "foo"}

\* the values thrown by fetch or by response.json()
Thrown ==
  [kind : {"string", "Error"}, text : RawTexts]
    \cup [kind : {"object", "cyclic"}, text : {<<>>}]

NoError == [kind |-> "none", text |-> <<>>]

\* the entries of a list under "data"
FieldValues(s) == {Undefined, Null, Number, String(""), String(s)}

Entries ==
  {StringEntry("bar"), StringEntry(""), NullEntry, NumberEntry}
    \cup {ObjectEntry(id, model, name) :
            id \in FieldValues("foo"),
            model \in {Undefined, String("baz")},
            name \in {Undefined, String("qux")}}
    \cup {ObjectEntry(Undefined, Number, name) : name \in {Undefined, String("qux")}}

RECURSIVE Lists(_)
Lists(n) ==
  IF n = 0 THEN {<<>>}
  ELSE LET shorter == Lists(n - 1)
       IN shorter \cup {Append(l, e) : l \in {x \in shorter : Len(x) = n - 1}, e \in Entries}

\* the body {"data":[{"id":"foo"}, "bar", {"model":"baz"}, {"nope":1}]}
ExampleData ==
  <<ObjectEntry(String("foo"), Undefined, Undefined), StringEntry("bar"),
    ObjectEntry(Undefined, String("baz"), Undefined),
    ObjectEntry(Undefined, Undefined, Undefined)>>

Response(kind, ok, statusText, text, json, data, error) ==
  [kind |-> kind, ok |-> ok, status |-> IF ok THEN <<"200">> ELSE StatusCode, statusText |-> statusText,
   text |-> text, json |-> json, data |-> data, error |-> error]

\* fetch rejects
Rejections == {Response("reject", FALSE, <<>>, None, "none", <<>>, e) : e \in Thrown}

\* a response that is not ok; reading its body fails (None) or gives a text
NotOkResponses ==
  {Response("response", FALSE, st, t, "none", <<>>, NoError) :
     st \in StatusTexts, t \in {None} \cup {Some(x) : x \in RawTexts}}

\* an ok response whose body is not JSON: response.json() throws a SyntaxError
InvalidJsonResponses ==
  {Response("response", TRUE, <<>>, None, "invalid", <<>>, [kind |-> "Error", text |-> m]) :
     m \in RawTexts}

\* an ok response whose body is JSON: null, an object without data, an
\* object whose data is not an array, an object whose data is a list
JsonResponses ==
  {Response("response", TRUE, <<>>, None, j, <<>>, NoError) :
     j \in {"null", "nodata", "notarray"}}
    \cup {Response("response", TRUE, <<>>, None, "array", l, NoError) :
            l \in Lists(MaxEntries) \cup {ExampleData}}

Responses == Rejections \cup NotOkResponses \cup InvalidJsonResponses \cup JsonResponses

Rates == {None} \cup {Some(r) : r \in 0..MaxRate}

\* the models the cost formula is called with
PricedModels ==
  [id : {"foo"}, providerId : {"minimax"},
   inputCostPerToken : Rates, outputCostPerToken : Rates,
   cacheWriteInputTokenCost : Rates, cacheReadInputTokenCost : Rates]

Tokens == 0..MaxTokens

OptionalTokens == {None} \cup {Some(n) : n \in Tokens}

\* usage = {inputTokens: 1000, outputTokens: 200}
ExampleUsage ==
  [inputTokens |-> Some(1000), outputTokens |-> Some(200), cachedInputTokens |-> None]

\* {anthropic: {cacheReadInputTokens: 300}}
ExampleMetadata ==
  Some([anthropic |-> Some([cacheCreationInputTokens |-> None,
                            cacheReadInputTokens |-> Some(300)])])

Usages ==
  [inputTokens : OptionalTokens, outputTokens : {None, Some(0), Some(1)},
   cachedInputTokens : OptionalTokens]
    \cup {ExampleUsage}

\* providerMetadata: left out, without an anthropic part, or with one
Metadatas ==
  {None, Some([anthropic |-> None]), ExampleMetadata}
    \cup {Some([anthropic |-> Some(a)]) :
            a \in [cacheCreationInputTokens : {None, Some(0), Some(1)},
                   cacheReadInputTokens : OptionalTokens]}

(***************************************************************************)
(* The state machine: the host calls one operation at a time and takes its *)
(* result before it calls the next.                                        *)
(***************************************************************************)
Init ==
  /\ op = "idle"
  /\ args = <<>>
  /\ ret = <<>>
  /\ warnings = <<>>
  /\ debugs = <<>>
  /\ requests = 0
  /\ envCalls = <<>>
  /\ agentTotalCost = 0
  /\ reports = 0

LoadModels ==
  /\ op = "idle"
  /\ \E profile \in Profiles, settings \in GlobalSettings, http \in Responses :
       LET out == loadMiniMaxModels(profile, ModelsInfo, settings, http)
       IN /\ op' = "loadMiniMaxModels"
          /\ args' = [profile |-> profile, settings |-> settings,
                      \* the answer to the request, when one was issued
                      http |-> IF out.requests = 0 THEN None ELSE Some(http)]
          /\ ret' = [threw |-> out.threw, models |-> out.models, success |-> out.success]
          /\ warnings' = out.warnings
          /\ requests' = out.requests
          /\ envCalls' = out.envCalls
  /\ UNCHANGED <<debugs, agentTotalCost, reports>>

\* the earlier revision of the discovery
LoadModelsEarlier ==
  /\ op = "idle"
  /\ \E profile \in {p \in Profiles : p.id = "minimax"}, settings \in GlobalSettings,
        http \in Responses :
       LET out == loadMiniMaxModelsEarlier(profile, ModelsInfo, settings, http)
       IN /\ op' = "loadMiniMaxModels (earlier revision)"
          /\ args' = [profile |-> profile, settings |-> settings,
                      http |-> IF out.requests = 0 THEN None ELSE Some(http)]
          /\ ret' = [threw |-> out.threw, models |-> out.models,
                     success |-> out.success, error |-> out.error]
          /\ requests' = out.requests
          /\ envCalls' = out.envCalls
  /\ UNCHANGED <<warnings, debugs, agentTotalCost, reports>>

AiderMapping ==
  /\ op = "idle"
  /\ \E provider \in Profiles, modelId \in ModelIdsMet, settings \in Settings :
       LET out == getMiniMaxAiderMapping(provider, modelId)
       IN /\ op' = "getMiniMaxAiderMapping"
          \* settings: what the environment would answer, were it asked
          /\ args' = [provider |-> provider, modelId |-> modelId, settings |-> settings]
          /\ ret' = [modelName |-> out.modelName,
                     environmentVariables |-> out.environmentVariables]
          /\ envCalls' = out.envCalls
  /\ UNCHANGED <<warnings, debugs, requests, agentTotalCost, reports>>

CreateLlm ==
  /\ op = "idle"
  /\ \E profile \in ProfilesWithHeaders, modelId \in ModelIdsMet, settings \in Settings :
       LET model == toModel(profile, ModelsInfo, modelId)
           out == createMiniMaxLlm(profile, model, settings)
       IN /\ op' = "createMiniMaxLlm"
          /\ args' = [profile |-> profile, model |-> model, settings |-> settings]
          /\ ret' = [threw |-> out.threw, message |-> out.message, client |-> out.client]
          /\ debugs' = out.debugs
          /\ envCalls' = out.envCalls
  /\ UNCHANGED <<warnings, requests, agentTotalCost, reports>>

CalculateCost ==
  /\ op = "idle"
  /\ \E model \in PricedModels, sentTokens \in Tokens, receivedTokens \in Tokens,
        cacheWriteTokens \in OptionalTokens, cacheReadTokens \in OptionalTokens :
       /\ op' = "calculateMiniMaxCost"
       /\ args' = [model |-> model, sentTokens |-> sentTokens,
                   receivedTokens |-> receivedTokens,
                   cacheWriteTokens |-> cacheWriteTokens,
                   cacheReadTokens |-> cacheReadTokens]
       /\ ret' = calculateMiniMaxCost(model, sentTokens, receivedTokens,
                                      cacheWriteTokens, cacheReadTokens)
  /\ UNCHANGED <<warnings, debugs, requests, envCalls, agentTotalCost, reports>>

UsageReport ==
  /\ op = "idle"
  /\ reports < MaxReports
  /\ \E provider \in {p \in Profiles : p.provider = [name |-> "minimax", apiKey |-> None]},
        modelId \in ModelIdsMet, usage \in Usages, providerMetadata \in Metadatas :
       LET model == toModel(provider, ModelsInfo, modelId)
       IN /\ op' = "getMiniMaxUsageReport"
          /\ args' = [agentTotalCost |-> agentTotalCost, provider |-> provider,
                      model |-> model, usage |-> usage,
                      providerMetadata |-> providerMetadata]
          /\ ret' = getMiniMaxUsageReport(agentTotalCost, provider, model, usage,
                                          providerMetadata)
  /\ reports' = reports + 1
  /\ UNCHANGED <<warnings, debugs, requests, envCalls, agentTotalCost>>

\* the caller takes the result; after a usage report it stores the report's
\* running total as the task's
Return ==
  /\ op # "idle"
  /\ op' = "idle"
  /\ args' = <<>>
  /\ ret' = <<>>
  /\ warnings' = <<>>
  /\ debugs' = <<>>
  /\ requests' = 0
  /\ envCalls' = <<>>
  /\ agentTotalCost' = IF op = "getMiniMaxUsageReport" THEN ret.agentTotalCost
                       ELSE agentTotalCost
  /\ UNCHANGED reports

Next == LoadModels \/ LoadModelsEarlier \/ AiderMapping \/ CreateLlm \/ CalculateCost \/ Return

Spec == Init /\ [][Next]_vars

\* a task: its usage reports, one after the other
NextTask == UsageReport \/ Return

SpecTask == Init /\ [][NextTask]_vars

(***************************************************************************)
(* Model discovery: what the claims speak of, stated on the arguments and  *)
(* on the answer of the HTTP request, not through the operators above.     *)
(***************************************************************************)
Loaded == op = "loadMiniMaxModels"

LoadedEarlier == op = "loadMiniMaxModels (earlier revision)"

\* an API key is available: explicit on the profile, or from the environment
KeyAvailable ==
  /\ args.profile.provider.name = "minimax"
  /\ \/ args.profile.provider.apiKey \notin {None, Some("")}
     \/ /\ args.settings.global # None
        /\ The(args.settings.global).value # ""

\* an entry that holds no non-empty string at all: neither itself nor in
\* one of its fields id, model, name
Unusable(entry) ==
  /\ ~(entry.t = "string" /\ entry.s # "")
  /\ \A v \in {entry.id, entry.model, entry.name} : ~(v.t = "string" /\ v.s # "")

\* an entry that is a non-empty string, or whose id is one
Plain(entry) ==
  \/ entry.t = "string" /\ entry.s # ""
  \/ entry.t = "object" /\ entry.id.t = "string" /\ entry.id.s # ""

PlainId(entry) == IF entry.t = "string" THEN entry.s ELSE entry.id.s

\* the request was issued and did not yield a usable list
NoUsableList ==
  /\ args.http # None
  /\ LET http == The(args.http)
     IN \/ http.kind = "reject"
        \/ ~http.ok
        \/ http.json # "array"
        \/ \A i \in 1..Len(http.data) : Unusable(http.data[i])

IdsOf(models) == [i \in 1..Len(models) |-> models[i].id]

\* C1: whenever a key is available and the request yields no usable list
\* (a response that is not ok, also when reading its body fails, a network
\* exception, a body that is not JSON, a body whose list is missing, not an
\* array, empty or made of unusable entries only), discovery does not throw
\* and returns success = true with exactly the static fallback identifiers,
\* in their order.
C1_FallbackToStaticList ==
  (Loaded /\ KeyAvailable /\ NoUsableList) =>
    /\ ~ret.threw
    /\ ret.success
    /\ IdsOf(ret.models) = <<"MiniMax-M2", "MiniMax-M2-Stable">>

\* a response that is not ok and whose body cannot be read led to the fallback
C1_Witness ==
  /\ Loaded /\ KeyAvailable /\ NoUsableList
  /\ ~The(args.http).ok /\ The(args.http).kind = "response"
  /\ The(args.http).text = None
  /\ ret.success /\ Len(ret.models) = 2

\* C2: a profile of this provider with no explicit key (absent or empty)
\* and no value of MINIMAX_API_KEY (unresolved or empty), and any profile
\* of another provider, gets {models: [], success: false}, without a throw
\* and without any HTTP request, in the current revision of the discovery
\* and in the earlier one.
C2_NoKeyNoRequest ==
  /\ (Loaded /\ ~KeyAvailable) =>
       /\ ret = [threw |-> FALSE, models |-> <<>>, success |-> FALSE]
       /\ requests = 0
       /\ args.http = None
  /\ (LoadedEarlier /\ ~KeyAvailable) =>
       /\ ret = [threw |-> FALSE, models |-> <<>>, success |-> FALSE, error |-> None]
       /\ requests = 0
       /\ args.http = None

\* the profile's key is the empty string and the variable resolves to an
\* empty value
C2_Witness ==
  /\ Loaded
  /\ args.profile.provider = [name |-> "minimax", apiKey |-> Some("")]
  /\ args.settings.global # None /\ The(args.settings.global).value = ""
  /\ ~ret.success /\ requests = 0

\* C4: every outcome of discovery is success = true with a non-empty list
\* or success = false with an empty list; every model carries the profile's
\* id as providerId; an identifier is returned whether or not the catalog
\* has an entry for it.
C4_OutcomeShape ==
  Loaded =>
    /\ \/ ret.success /\ Len(ret.models) > 0
       \/ ~ret.success /\ ret.models = <<>>
    /\ \A i \in 1..Len(ret.models) : ret.models[i].providerId = args.profile.id
    /\ (KeyAvailable /\ ~NoUsableList) =>
         \A i \in 1..Len(The(args.http).data) :
           LET entry == The(args.http).data[i]
           IN Plain(entry) => \E j \in 1..Len(ret.models) : ret.models[j].id = PlainId(entry)

\* a list with an identifier the catalog knows and one it does not
C4_Witness ==
  /\ Loaded /\ ret.success
  /\ args.profile.id = "minimax-2"
  /\ IdsOf(ret.models) = <<"foo", "bar">>
  /\ "foo" \in DOMAIN ModelsInfo /\ "bar" \notin DOMAIN ModelsInfo

\* a reason as the log may show it: no "<" with a ">" after it, no two
\* whitespace characters in a row, none at either end, and not empty
Sanitized(reason) ==
  /\ reason # <<>>
  /\ \A i \in 1..Len(reason) : \A j \in 1..Len(reason) :
       ~(i < j /\ reason[i] = "<" /\ reason[j] = ">")
  /\ \A i \in 1..(Len(reason) - 1) :
       ~(reason[i] \in Whitespace /\ reason[i + 1] \in Whitespace)
  /\ reason[1] \notin Whitespace
  /\ reason[Len(reason)] \notin Whitespace

\* C10: a call that falls back to the static list logs exactly one warning,
\* a call that returns without falling back logs none, and the reason of
\* every warning is sanitized.
C10_OneSanitizedWarning ==
  Loaded =>
    /\ Len(warnings) <= 1
    /\ (KeyAvailable /\ NoUsableList) => Len(warnings) = 1
    /\ ~KeyAvailable => warnings = <<>>
    /\ (KeyAvailable /\ args.http # None /\ The(args.http).ok
          /\ \E i \in 1..Len(The(args.http).data) : Plain(The(args.http).data[i]))
         => warnings = <<>>
    /\ \A i \in 1..Len(warnings) : Sanitized(warnings[i])

\* a raw reason with a tag and whitespace around it was logged sanitized
C10_Witness ==
  /\ Loaded /\ Len(warnings) = 1
  /\ The(args.http).kind = "reject"
  /\ The(args.http).error = [kind |-> "Error", text |-> <<" ", "<", ">">>]
  /\ warnings[1] = <<"Unknown", " ", "error">>

\* the identifier of an entry as C3 words it: the entry itself when it is a
\* string, otherwise the first of id, model, name that is a string
FirstString(fields) ==
  IF fields = <<>> THEN Undefined
  ELSE IF fields[1].t = "string" THEN fields[1]
  ELSE IF Len(fields) >= 2 /\ fields[2].t = "string" THEN fields[2]
  ELSE IF Len(fields) >= 3 /\ fields[3].t = "string" THEN fields[3]
  ELSE Undefined

StatedId(entry) ==
  IF entry.t = "string" THEN String(entry.s)
  ELSE IF entry.t = "object" THEN FirstString(<<entry.id, entry.model, entry.name>>)
  ELSE Undefined

RECURSIVE StatedIds(_)
StatedIds(entries) ==
  IF entries = <<>> THEN <<>>
  ELSE (IF StatedId(Head(entries)).t = "string" /\ StatedId(Head(entries)).s # ""
        THEN <<StatedId(Head(entries)).s>> ELSE <<>>)
       \o StatedIds(Tail(entries))

\* C3: for an ok response whose body holds a list under data, discovery
\* returns success = true with, in the order of the entries, the identifier
\* of each usable entry: the entry itself when it is a string, otherwise
\* the first of its fields id, model, name that is a string; an entry with
\* no usable identifier is discarded.
C3_IdentifiersAsStated ==
  (Loaded /\ KeyAvailable /\ args.http # None /\ The(args.http).ok
     /\ The(args.http).json = "array" /\ StatedIds(The(args.http).data) # <<>>) =>
    /\ ret.success
    /\ IdsOf(ret.models) = StatedIds(The(args.http).data)

(***************************************************************************)
(* The cost formula and the usage report.                                  *)
(***************************************************************************)
\* the rate a model gives, or a default when the model lacks it
RateOr(rate, default) == IF rate = None THEN default ELSE The(rate)

\* the cost as section 4.5 states it
StatedCost(model, sent, received, cacheWrite, cacheRead) ==
  LET inputRate == RateOr(model.inputCostPerToken, 0)
  IN sent * inputRate
     + received * RateOr(model.outputCostPerToken, 0)
     + cacheWrite * RateOr(model.cacheWriteInputTokenCost, inputRate)
     + cacheRead * RateOr(model.cacheReadInputTokenCost, 0)

\* C5: calculateMiniMaxCost returns sent*inputRate + received*outputRate
\* + cacheWrite*cacheWriteRate + cacheRead*cacheReadRate, where a missing
\* input or output rate is 0, a missing cache-write rate is the input rate
\* (a cache-write rate of 0 stays 0), a missing cache-read rate is 0, and
\* cache token counts left out are 0.
C5_CostFormula ==
  op = "calculateMiniMaxCost" =>
    ret = StatedCost(args.model, args.sentTokens, args.receivedTokens,
                     IF args.cacheWriteTokens = None THEN 0 ELSE The(args.cacheWriteTokens),
                     IF args.cacheReadTokens = None THEN 0 ELSE The(args.cacheReadTokens))

\* cache writes at an explicit rate of 0 cost nothing although the input
\* rate is not 0
C5_Witness ==
  /\ op = "calculateMiniMaxCost"
  /\ args.model.inputCostPerToken = Some(1)
  /\ args.model.cacheWriteInputTokenCost = Some(0)
  /\ args.sentTokens = 0 /\ args.receivedTokens = 0
  /\ args.cacheWriteTokens = Some(2) /\ args.cacheReadTokens = None
  /\ ret = 0

Reported == op = "getMiniMaxUsageReport"

\* the counters of the provider metadata, when it has them
MetaCacheRead ==
  IF args.providerMetadata = None THEN None
  ELSE IF The(args.providerMetadata).anthropic = None THEN None
  ELSE The(The(args.providerMetadata).anthropic).cacheReadInputTokens

MetaCacheWrite ==
  IF args.providerMetadata = None THEN None
  ELSE IF The(args.providerMetadata).anthropic = None THEN None
  ELSE The(The(args.providerMetadata).anthropic).cacheCreationInputTokens

\* C6: in the report, cacheReadTokens is the metadata's cache-read counter
\* whenever it is present (also when it is 0), else the usage's generic
\* cached-input counter, else 0; cacheWriteTokens is the metadata's
\* cache-creation counter or 0; sentTokens is the total input minus
\* cacheReadTokens, not clamped; messageCost is the cost of those four
\* counts; agentTotalCost is the prior total plus messageCost.
C6_UsageReport ==
  Reported =>
    /\ ret.cacheReadTokens =
         (IF MetaCacheRead # None THEN The(MetaCacheRead)
          ELSE IF args.usage.cachedInputTokens # None THEN The(args.usage.cachedInputTokens)
          ELSE 0)
    /\ ret.cacheWriteTokens = (IF MetaCacheWrite # None THEN The(MetaCacheWrite) ELSE 0)
    /\ ret.receivedTokens =
         (IF args.usage.outputTokens # None THEN The(args.usage.outputTokens) ELSE 0)
    /\ ret.sentTokens =
         (IF args.usage.inputTokens # None THEN The(args.usage.inputTokens) ELSE 0)
           - ret.cacheReadTokens
    /\ ret.messageCost =
         StatedCost(args.model, ret.sentTokens, ret.receivedTokens,
                    ret.cacheWriteTokens, ret.cacheReadTokens)
    /\ ret.agentTotalCost = args.agentTotalCost + ret.messageCost

\* input 1000, cache-read 300 in the metadata, prior total 5
C6_Witness ==
  /\ Reported
  /\ args.usage = ExampleUsage /\ args.providerMetadata = ExampleMetadata
  /\ args.agentTotalCost = 5
  /\ args.model.id = "foo"
  /\ ret.sentTokens = 700
  /\ ret.messageCost = 700 * 2 + 200 * 3 + 300 * 1
  /\ ret.agentTotalCost = 5 + ret.messageCost

\* C7: with rates and token counters that are all non-negative, the
\* messageCost of a report is >= 0 and its agentTotalCost is not below the
\* task's prior total.
C7_CostNeverNegative ==
  Reported =>
    /\ ret.messageCost >= 0
    /\ ret.agentTotalCost >= args.agentTotalCost

(***************************************************************************)
(* The model client and the aider mapping.                                 *)
(***************************************************************************)
ExplicitKey == args.profile.provider.apiKey

ProjectKey ==
  IF args.settings.project = None THEN None ELSE Some(The(args.settings.project).value)

\* C8: createMiniMaxLlm takes the profile's key when it is non-empty, and
\* does not ask the environment then; otherwise it takes the value of
\* MINIMAX_API_KEY resolved in the project's scope.  It throws, with the
\* message that names MINIMAX_API_KEY, exactly when neither gives a
\* non-empty key, and builds no client then; otherwise the client holds
\* the resolved key, the fixed base URL and the profile's headers.
C8_LlmKeyResolution ==
  op = "createMiniMaxLlm" =>
    LET explicit == ExplicitKey \notin {None, Some("")}
        fromEnv == ProjectKey \notin {None, Some("")}
    IN /\ ret.threw <=> (~explicit /\ ~fromEnv)
       /\ envCalls = (IF explicit THEN <<>> ELSE <<"project">>)
       /\ ret.threw =>
            /\ ret.client = None
            /\ ret.message =
                 "MiniMax API key is required in Providers settings or Aider environment variables (MINIMAX_API_KEY)"
       /\ ~ret.threw =>
            ret.client =
              Some([apiKey |-> IF explicit THEN The(ExplicitKey) ELSE The(ProjectKey),
                    baseURL |-> "https://api.minimax.io/anthropic",
                    headers |-> args.profile.headers,
                    modelId |-> args.model.id])

\* no explicit key; the project's scope gives one and the global scope
\* gives another
C8_Witness ==
  /\ op = "createMiniMaxLlm"
  /\ ExplicitKey = Some("")
  /\ ProjectKey = Some("project-key")
  /\ args.settings.global # None /\ The(args.settings.global).value = "global-key"
  /\ args.profile.headers = Some("x-team")
  /\ ~ret.threw /\ The(ret.client).apiKey = "project-key"
  /\ debugs = <<"project/.env">>

\* C9: the mapping names the model "anthropic/" + modelId, always sets
\* ANTHROPIC_API_URL to the fixed base URL, sets ANTHROPIC_API_KEY if and
\* only if the profile has a non-empty explicit key (to that key), sets
\* nothing else and never asks the environment.
C9_AiderMapping ==
  op = "getMiniMaxAiderMapping" =>
    LET explicit == args.provider.provider.apiKey \notin {None, Some("")}
        env == ret.environmentVariables
    IN /\ ret.modelName = "anthropic/" \o args.modelId
       /\ DOMAIN env = (IF explicit THEN {"ANTHROPIC_API_URL", "ANTHROPIC_API_KEY"}
                        ELSE {"ANTHROPIC_API_URL"})
       /\ env["ANTHROPIC_API_URL"] = "https://api.minimax.io/anthropic"
       /\ explicit => env["ANTHROPIC_API_KEY"] = The(args.provider.provider.apiKey)
       /\ envCalls = <<>>

\* the key exists in the environment only
C9_Witness ==
  /\ op = "getMiniMaxAiderMapping"
  /\ args.provider.provider.apiKey = Some("")
  /\ args.settings.global # None /\ The(args.settings.global).value = "global-key"
  /\ args.settings.project # None /\ The(args.settings.project).value = "project-key"
  /\ DOMAIN ret.environmentVariables = {"ANTHROPIC_API_URL"}
  /\ ret.modelName = "anthropic/MiniMax-M2"

====
